---- MODULE Spec2Model ----
(***************************************************************************)
(* A model of the Heroku AppLink API-access sample (index.js): the index   *)
(* handler's fan-out over the configured connections, the /bulk-demo       *)
(* handler, and the background bulk job monitor.  The SDK (authorization,  *)
(* query, bulk ingest, job status, failed results) is the environment: its *)
(* answers are drawn from small sets.  Each action is one run-to-completion*)
(* step of the Node.js event loop: the code between two awaits.            *)
(***************************************************************************)
EXTENDS Integers, Sequences, FiniteSets, TLC

(* ------------------------------ bounds --------------------------------- *)

\* entries in CONNECTION_NAMES
MaxConn == 2
\* records a query returns
MaxRecs == 2
\* /bulk-demo requests served
MaxReq == 2
\* status polls one monitor issues
MaxPolls == 3
\* records a job reports as processed
MaxProcessed == 1
\* 'Bulk Account' records the org holds
MaxOrgRecs == 1

(* ------------------------------ strings -------------------------------- *)
\* A string is a sequence of one-character strings.

Str_empty_org == <<"e", "m", "p", "t", "y", "-", "o", "r", "g">>
Str_org_a == <<"o", "r", "g", "-", "a">>

Whitespace == {" ", "\t"}

RECURSIVE TrimStart(_)
TrimStart(s) ==
  IF s # <<>> /\ Head(s) \in Whitespace THEN TrimStart(Tail(s)) ELSE s

RECURSIVE TrimEnd(_)
TrimEnd(s) ==
  IF s # <<>> /\ s[Len(s)] \in Whitespace
  THEN TrimEnd(SubSeq(s, 1, Len(s) - 1))
  ELSE s

\* String.prototype.trim
Trim(s) == TrimEnd(TrimStart(s))

\* String.prototype.split(',')
RECURSIVE Split(_)
Split(s) ==
  IF \E i \in 1..Len(s) : s[i] = ","
  THEN LET i == CHOOSE k \in 1..Len(s) :
                  s[k] = "," /\ \A j \in 1..(k - 1) : s[j] # ","
       IN <<SubSeq(s, 1, i - 1)>> \o Split(SubSeq(s, i + 1, Len(s)))
  ELSE <<s>>

Includes_Trimmed(arr, x) == \E i \in 1..Len(arr) : Trim(arr[i]) = x

\* Array.prototype.includes
Includes(arr, x) == \E i \in 1..Len(arr) : arr[i] = x

(* ---------------------------- configuration ---------------------------- *)

\* process.env.CONNECTION_NAMES when the variable is not set
Unset == <<"<unset>">>

\* the entries an operator may write between the commas
NamePool ==
  { Str_empty_org, <<" ">> \o Str_empty_org, <<" ">> \o Str_org_a \o <<"\t">> }

RECURSIVE Join(_)
Join(names) ==
  IF Len(names) = 1 THEN names[1]
  ELSE names[1] \o <<",">> \o Join(Tail(names))

\* the values CONNECTION_NAMES may hold
EnvValues ==
  {Unset, <<>>}
    \cup { Join(ns) : ns \in UNION { [1..n -> NamePool] : n \in 1..MaxConn } }

\* const connectionNames = env ? env.split(',') : []
ParseConnectionNames(env) ==
  IF env = Unset \/ env = <<>> THEN <<>> ELSE Split(env)

emptyOrgName == Str_empty_org

(* ------------------------- the SDK's answers --------------------------- *)

Undefined == "<undefined>"

\* an Error is the record of its message
AuthErrors == { [message |-> "invalid_grant"] }
QueryErrors == { [message |-> "INVALID_FIELD"] }

\* getAuthorization(name): an org, or an org without its user
Orgs(name) ==
  { [id |-> name, user |-> "user"], [id |-> name, user |-> Undefined] }

\* records of a query result: a field bag with more than Name and Id, or
\* without a Name
RecordPool ==
  { [fields |-> [Name |-> "Acme", Id |-> "001", Phone |-> "555"]],
    [fields |-> [Id |-> "002", Phone |-> "555"]] }

\* a record with no field bag
BadRecord == [attributes |-> "Account"]

\* what query returns: every sequence of records, and two with a bad record
QueryResults ==
  { [records |-> rs] :
      rs \in UNION { [1..n -> RecordPool] : n \in 0..MaxRecs } }
    \cup { [records |-> <<BadRecord>>],
           [records |->
              <<[fields |-> [Name |-> "Acme", Id |-> "001", Phone |-> "555"]],
                BadRecord>>] }

\* the TypeError of reading property p of undefined
TypeError(p) ==
  [message |->
     CASE p = "Name" -> "Cannot read properties of undefined (reading 'Name')"
       [] p = "username" ->
            "Cannot read properties of undefined (reading 'username')"
       [] p = "id" -> "Cannot read properties of undefined (reading 'id')"]

IngestErrors == { [message |-> "malformed batch"] }
PollErrors == { [message |-> "ECONNRESET"] }
FetchErrors == { [message |-> "ETIMEDOUT"] }

\* jobInfo.state
NonTerminalStates == {"Queued", "InProgress"}
TerminalStates == {"JobComplete", "Failed", "Aborted"}

\* what getInfo returns
Snapshots ==
  { [state |-> st, numberRecordsProcessed |-> np, numberRecordsFailed |-> nf] :
      st \in NonTerminalStates \cup TerminalStates,
      np \in 0..MaxProcessed,
      nf \in 0..MaxProcessed }

\* what ingest returns for request r: no handle, one, or two (one per job)
Handle(id) == [id |-> id]

\* ingestResults[0] of an empty array
NoHandle == [undefined |-> TRUE]

IngestResults(r) ==
  { <<>>, <<Handle(r)>>, <<Handle(r), Handle(r + MaxReq)>> }

\* what getFailedResults returns
FailedResults == { <<"DUPLICATES_DETECTED">> }

(* ------------------------------ variables ------------------------------ *)

VARIABLES
  connectionNames,  \* the parsed CONNECTION_NAMES
  listening,        \* the server accepts new requests
  ixPc,             \* the index handler: "idle", "awaiting", "done"
  cbPc,             \* per entry, its callback: "resolving", "querying",
                    \* "fulfilled", "rejected"
  cbOrg,            \* per entry, the org its getAuthorization returned
  cbValue,          \* per entry, the value (or reason) its promise settled to
  cbAuth,           \* per entry, what getAuthorization answered (history)
  cbQuery,          \* per entry, what query answered (history)
  cbCalls,          \* per entry, the SDK calls issued for it (history)
  ixSent,           \* the responses sent for the current index request
  bdPc,             \* per /bulk-demo request: "idle", "resolving",
                    \* "querying", "ingesting", "done"
  bdOrg,            \* per request, the org its getAuthorization returned
  bdFound,          \* per request, the records its query returned (history)
  bdCalls,          \* per request, the SDK calls its handler issued and,
                    \* as op "raised", the errors they raised (history)
  bdSent,           \* per request, the responses sent
  monPc,            \* per request, the monitor it started: "idle" (none),
                    \* "polling", "waiting", "fetching", "done"
  monResult,        \* per monitor, its job handle (the parameter result)
  monJobInfo,       \* per monitor, the status its last getInfo returned
  monPolls,         \* per monitor, the getInfo calls issued (history)
  monWaits,         \* per monitor, the 5 s timers set (history)
  monFetches,       \* per monitor, the getFailedResults calls issued
  monLog,           \* per monitor, what it wrote to the console
  jobInfo,          \* per job, its status in the org (None: no such job)
  orgBulkAccounts   \* the 'Bulk Account%' records the empty-org holds

ixVars ==
  <<ixPc, cbPc, cbOrg, cbValue, cbAuth, cbQuery, cbCalls, ixSent>>

bdVars == <<bdPc, bdOrg, bdFound, bdCalls, bdSent>>

monVars ==
  <<monPc, monResult, monJobInfo, monPolls, monWaits, monFetches, monLog>>

orgVars == <<jobInfo, orgBulkAccounts>>

vars == <<connectionNames, listening, ixVars, bdVars, monVars, orgVars>>

Conns == 1..Len(connectionNames)

None == [none |-> TRUE]

(* --------------------------- the index handler ------------------------- *)

\* property read o.p of a record or field bag: undefined when absent
Get(o, p) == IF p \in DOMAIN o THEN o[p] ELSE Undefined

\* a variant of ProjectRecord that passes the whole field bag on
ProjectRecord_WholeBag(record) == record.fields

\* queryResult.records.map((record) => ({Name: ..., Id: ...})):
\* the rows, or the TypeError of the first record without a field bag
ProjectRecord(record) ==
  [Name |-> Get(record.fields, "Name"), Id |-> Get(record.fields, "Id")]

Malformed(record) == "fields" \notin DOMAIN record

ProjectRecords(records) ==
  IF \E k \in 1..Len(records) : Malformed(records[k])
  THEN [threw |-> TRUE, error |-> TypeError("Name")]
  ELSE [threw |-> FALSE,
        accounts |-> [k \in 1..Len(records) |-> ProjectRecord(records[k])]]

\* the value the callback returns from its try block
Success(connectionName, accounts) ==
  [connectionName |-> Trim(connectionName), accounts |-> accounts]

\* a variant of Failure that reads a property the error does not have
Failure_NoMessage(connectionName, error) ==
  [connectionName |-> Trim(connectionName),
   error |-> Undefined,
   accounts |-> <<>>]

\* the value the callback returns from its catch block
Failure(connectionName, error) ==
  [connectionName |-> Trim(connectionName),
   error |-> error.message,
   accounts |-> <<>>]

\* a variant of CallbackCatch for a callback without its try/catch: the
\* promise of entry i is rejected with the error
CallbackCatch_Rethrow(i, error) ==
  /\ cbPc' = [cbPc EXCEPT ![i] = "rejected"]
  /\ cbValue' = [cbValue EXCEPT ![i] = error]

\* catch (error) { ...; return {...} } of the callback: the promise of
\* entry i is fulfilled with the failure outcome
CallbackCatch(i, error) ==
  /\ cbPc' = [cbPc EXCEPT ![i] = "fulfilled"]
  /\ cbValue' = [cbValue EXCEPT ![i] = Failure(connectionNames[i], error)]

\* GET /: connectionNames.map runs every callback to its first await, so
\* getAuthorization is called for every entry, and Promise.all is awaited
IndexRequest_OneAtATime ==
  /\ listening
  /\ ixPc \in {"idle", "done"}
  /\ ixPc' = "awaiting"
  /\ cbPc' = [i \in Conns |-> IF i = 1 THEN "resolving" ELSE "pending"]
  /\ cbOrg' = [i \in Conns |-> None]
  /\ cbValue' = [i \in Conns |-> None]
  /\ cbAuth' = [i \in Conns |-> None]
  /\ cbQuery' = [i \in Conns |-> None]
  /\ cbCalls' =
       [i \in Conns |->
          IF i = 1
          THEN <<[op |-> "getAuthorization", arg |-> Trim(connectionNames[i])]>>
          ELSE <<>>]
  /\ ixSent' = <<>>
  /\ UNCHANGED <<connectionNames, listening, bdVars, monVars, orgVars>>

IndexRequest ==
  /\ listening
  /\ ixPc \in {"idle", "done"}
  /\ ixPc' = "awaiting"
  /\ cbPc' = [i \in Conns |-> "resolving"]
  /\ cbOrg' = [i \in Conns |-> None]
  /\ cbValue' = [i \in Conns |-> None]
  /\ cbAuth' = [i \in Conns |-> None]
  /\ cbQuery' = [i \in Conns |-> None]
  /\ cbCalls' =
       [i \in Conns |->
          <<[op |-> "getAuthorization", arg |-> Trim(connectionNames[i])]>>]
  /\ ixSent' = <<>>
  /\ UNCHANGED <<connectionNames, listening, bdVars, monVars, orgVars>>

\* getAuthorization of entry i returns org: log it, then issue the query
AuthReturn(i, org) ==
  /\ ixPc = "awaiting" /\ cbPc[i] = "resolving"
  /\ cbAuth' = [cbAuth EXCEPT ![i] = [returned |-> org]]
  /\ IF org.user = Undefined
     THEN /\ CallbackCatch(i, TypeError("username"))
          /\ UNCHANGED <<cbOrg, cbCalls>>
     ELSE /\ cbPc' = [cbPc EXCEPT ![i] = "querying"]
          /\ cbOrg' = [cbOrg EXCEPT ![i] = org]
          /\ cbCalls' =
               [cbCalls EXCEPT
                  ![i] = Append(@, [op |-> "query", arg |-> org.id])]
          /\ UNCHANGED cbValue
  /\ UNCHANGED <<bdVars, monVars, orgVars, connectionNames, listening, ixPc, cbQuery, ixSent>>

AuthRaise_QueryAnyway(i, error) ==
  /\ ixPc = "awaiting" /\ cbPc[i] = "resolving"
  /\ cbAuth' = [cbAuth EXCEPT ![i] = [raised |-> error]]
  /\ cbPc' = [cbPc EXCEPT ![i] = "querying"]
  /\ cbCalls' =
       [cbCalls EXCEPT ![i] = Append(@, [op |-> "query", arg |-> Undefined])]
  /\ UNCHANGED <<bdVars, monVars, orgVars, connectionNames, listening, ixPc,
                 cbOrg, cbValue, cbQuery, ixSent>>

\* getAuthorization of entry i raises
AuthRaise(i, error) ==
  /\ ixPc = "awaiting" /\ cbPc[i] = "resolving"
  /\ cbAuth' = [cbAuth EXCEPT ![i] = [raised |-> error]]
  /\ CallbackCatch(i, error)
  /\ UNCHANGED <<bdVars, monVars, orgVars, connectionNames, listening, ixPc, cbOrg, cbQuery, cbCalls, ixSent>>

\* the query of entry i returns: log it, project the records, return
QueryReturn(i, queryResult) ==
  /\ ixPc = "awaiting" /\ cbPc[i] = "querying"
  /\ cbQuery' = [cbQuery EXCEPT ![i] = [returned |-> queryResult]]
  /\ LET p == ProjectRecords(queryResult.records) IN
       IF p.threw
       THEN CallbackCatch(i, p.error)
       ELSE /\ cbPc' = [cbPc EXCEPT ![i] = "fulfilled"]
            /\ cbValue' =
                 [cbValue EXCEPT
                    ![i] = Success(connectionNames[i], p.accounts)]
  /\ UNCHANGED <<bdVars, monVars, orgVars, connectionNames, listening, ixPc, cbOrg, cbAuth, cbCalls, ixSent>>

\* the query of entry i raises
QueryRaise(i, error) ==
  /\ ixPc = "awaiting" /\ cbPc[i] = "querying"
  /\ cbQuery' = [cbQuery EXCEPT ![i] = [raised |-> error]]
  /\ CallbackCatch(i, error)
  /\ UNCHANGED <<bdVars, monVars, orgVars, connectionNames, listening, ixPc, cbOrg, cbAuth, cbCalls, ixSent>>

\* await Promise.all(...): rejected with the reason of a rejected promise
\* (the handler's catch answers 500), or fulfilled with every value in the
\* order of the input (the handler renders the page)
IndexSettle ==
  /\ ixPc = "awaiting"
  /\ IF \E i \in Conns : cbPc[i] = "rejected"
     THEN \E i \in Conns :
            /\ cbPc[i] = "rejected"
            /\ ixSent' =
                 Append(ixSent, [status |-> 500, body |-> cbValue[i].message])
     ELSE /\ \A i \in Conns : cbPc[i] = "fulfilled"
          /\ ixSent' =
               Append(ixSent,
                      [status |-> 200,
                       accountsByOrg |-> [i \in Conns |-> cbValue[i]]])
  /\ ixPc' = "done"
  /\ UNCHANGED <<bdVars, monVars, orgVars, connectionNames, listening, cbPc, cbOrg, cbValue, cbAuth, cbQuery,
                 cbCalls>>


(* ------------------------- the bulk job monitor ------------------------ *)

Reqs == 1..MaxReq

\* the request whose monitor and job are followed to their end
MonitoredReqs == {1}

\* a variant of IsComplete that ends the loop on JobComplete only
IsComplete_OnlyJobComplete(info) == info.state = "JobComplete"

\* a variant of IsComplete that leaves Aborted out of the list
IsComplete_WithoutAborted(info) == info.state \in {"JobComplete", "Failed"}

\* ['JobComplete', 'Failed', 'Aborted'].includes(jobInfo.state)
IsComplete(info) == info.state \in {"JobComplete", "Failed", "Aborted"}

\* a variant of HasFailedRecords that compares with >=
HasFailedRecords_AtLeastZero(info) == info.numberRecordsFailed >= 0

\* jobInfo.numberRecordsFailed > 0
HasFailedRecords(info) == info.numberRecordsFailed > 0

\* console.log('Bulk job status:', {...}); of what is printed the entry
\* keeps the job and its state (the counts are those of monJobInfo)
StatusEntry(result, info) ==
  [level |-> "log", kind |-> "status", id |-> result.id,
   state |-> info.state]

\* a variant of MonitorStep that fetches the failed records of any ended job
MonitorStep_FetchOnAnyEnd(result, info) ==
  IF IsComplete(info)
  THEN IF HasFailedRecords(info)
       THEN [pc |-> "fetching", log |-> <<>>]
       ELSE IF info.state = "JobComplete"
            THEN [pc |-> "done",
                  log |-> <<[level |-> "log", kind |-> "success",
                             id |-> result.id,
                             processed |-> info.numberRecordsProcessed]>>]
            ELSE [pc |-> "done",
                  log |-> <<[level |-> "error", kind |-> "ended",
                             id |-> result.id, state |-> info.state]>>]
  ELSE [pc |-> "waiting", log |-> <<>>]

\* a variant of MonitorStep that polls again at once, without the timer
MonitorStep_BusyLoop(result, info) ==
  IF IsComplete(info)
  THEN IF info.state = "JobComplete"
       THEN IF HasFailedRecords(info)
            THEN [pc |-> "fetching", log |-> <<>>]
            ELSE [pc |-> "done",
                  log |-> <<[level |-> "log", kind |-> "success",
                             id |-> result.id,
                             processed |-> info.numberRecordsProcessed]>>]
       ELSE [pc |-> "done",
             log |-> <<[level |-> "error", kind |-> "ended",
                        id |-> result.id, state |-> info.state]>>]
  ELSE [pc |-> "polling", log |-> <<>>]

\* the loop body after the status log: where the monitor goes next ("done":
\* the loop ends; "fetching": getFailedResults is called; "waiting": the
\* timer is set) and what it writes to the console on the way
MonitorStep(result, info) ==
  IF IsComplete(info)
  THEN IF info.state = "JobComplete"
       THEN IF HasFailedRecords(info)
            THEN [pc |-> "fetching", log |-> <<>>]
            ELSE [pc |-> "done",
                  log |-> <<[level |-> "log", kind |-> "success",
                             id |-> result.id,
                             processed |-> info.numberRecordsProcessed]>>]
       ELSE [pc |-> "done",
             log |-> <<[level |-> "error", kind |-> "ended",
                        id |-> result.id, state |-> info.state]>>]
  ELSE [pc |-> "waiting", log |-> <<>>]

\* a variant of MonitorCatch for a monitor without its try/catch: the
\* monitor's promise is rejected, and nothing handles the rejection
MonitorCatch_Rethrow(r, error) ==
  /\ monPc' = [monPc EXCEPT ![r] = "rejected"]
  /\ UNCHANGED monLog

\* catch (error) { console.error('Error monitoring bulk job:', error) }:
\* the monitor's promise is fulfilled
MonitorCatch(r, error) ==
  /\ monPc' = [monPc EXCEPT ![r] = "done"]
  /\ monLog' =
       [monLog EXCEPT
          ![r] = Append(@, [level |-> "error", kind |-> "monitor-error",
                            message |-> error.message])]

\* monitorBulkJob(org, result) up to its first await: getInfo is called
MonitorStart(r, result) ==
  /\ monPc' = [monPc EXCEPT ![r] = "polling"]
  /\ monResult' = [monResult EXCEPT ![r] = result]
  /\ monPolls' = [monPolls EXCEPT ![r] = 1]
  /\ UNCHANGED <<monJobInfo, monWaits, monFetches, monLog>>

\* getInfo returns the job's status: log it (result.id of an undefined
\* handle raises), then end, fetch the failed records, or set the timer
PollReturn(r) ==
  /\ monPc[r] = "polling"
  /\ IF monResult[r] = NoHandle
     THEN /\ MonitorCatch(r, TypeError("id"))
          /\ UNCHANGED <<monJobInfo, monPolls, monWaits, monFetches>>
     ELSE LET info == jobInfo[monResult[r].id]
              step == MonitorStep(monResult[r], info)
          IN /\ monJobInfo' = [monJobInfo EXCEPT ![r] = info]
             /\ monPc' = [monPc EXCEPT ![r] = step.pc]
             /\ monLog' =
                  [monLog EXCEPT
                     ![r] = Append(@, StatusEntry(monResult[r], info))
                              \o step.log]
             /\ monPolls' =
                  [monPolls EXCEPT
                     ![r] = IF step.pc = "polling" THEN @ + 1 ELSE @]
             /\ monWaits' =
                  [monWaits EXCEPT
                     ![r] = IF step.pc = "waiting" THEN @ + 1 ELSE @]
             /\ monFetches' =
                  [monFetches EXCEPT
                     ![r] = IF step.pc = "fetching" THEN @ + 1 ELSE @]
  /\ UNCHANGED <<connectionNames, listening, ixVars, bdVars, orgVars, monResult>>

\* getInfo raises
PollRaise(r, error) ==
  /\ monPc[r] = "polling"
  /\ MonitorCatch(r, error)
  /\ UNCHANGED <<connectionNames, listening, ixVars, bdVars, orgVars, monResult,
                 monJobInfo, monPolls, monWaits, monFetches>>

\* a variant of WaitElapse that gives up after the wait
WaitElapse_GiveUp(r) ==
  /\ monPc[r] = "waiting"
  /\ monPc' = [monPc EXCEPT ![r] = "done"]
  /\ UNCHANGED <<connectionNames, listening, ixVars, bdVars, orgVars, monResult,
                 monJobInfo, monPolls, monWaits, monFetches, monLog>>

\* the 5 s timer fires: the loop calls getInfo again
WaitElapse(r) ==
  /\ monPc[r] = "waiting"
  /\ monPolls[r] < MaxPolls
  /\ monPc' = [monPc EXCEPT ![r] = "polling"]
  /\ monPolls' = [monPolls EXCEPT ![r] = @ + 1]
  /\ UNCHANGED <<connectionNames, listening, ixVars, bdVars, orgVars, monResult,
                 monJobInfo, monWaits, monFetches, monLog>>

\* getFailedResults returns: log the failed records; the loop ends
FetchReturn(r, failedResults) ==
  /\ monPc[r] = "fetching"
  /\ monPc' = [monPc EXCEPT ![r] = "done"]
  /\ monLog' =
       [monLog EXCEPT
          ![r] = Append(@, [level |-> "error", kind |-> "failed-records",
                            records |-> failedResults])]
  /\ UNCHANGED <<connectionNames, listening, ixVars, bdVars, orgVars, monResult,
                 monJobInfo, monPolls, monWaits, monFetches>>

\* getFailedResults raises
FetchRaise(r, error) ==
  /\ monPc[r] = "fetching"
  /\ MonitorCatch(r, error)
  /\ UNCHANGED <<connectionNames, listening, ixVars, bdVars, orgVars, monResult,
                 monJobInfo, monPolls, monWaits, monFetches>>

(* ------------------------------- the org ------------------------------- *)

\* the org works on job j: its status changes until it is terminal
JobProgress(j, info) ==
  /\ jobInfo[j] # None
  /\ ~ IsComplete(jobInfo[j])
  /\ info # jobInfo[j]
  /\ jobInfo' = [jobInfo EXCEPT ![j] = info]
  /\ UNCHANGED <<connectionNames, listening, ixVars, bdVars, monVars, orgBulkAccounts>>

\* the org inserts a record of a submitted job
JobInsert(j) ==
  /\ jobInfo[j] # None
  /\ orgBulkAccounts < MaxOrgRecs
  /\ orgBulkAccounts' = orgBulkAccounts + 1
  /\ UNCHANGED <<connectionNames, listening, ixVars, bdVars, monVars, jobInfo>>

(* ------------------------- the /bulk-demo handler ---------------------- *)

Respond(r, response) == bdSent' = [bdSent EXCEPT ![r] = Append(@, response)]

BulkCatch_NoStatus(r, error) ==
  /\ bdPc' = [bdPc EXCEPT ![r] = "done"]
  /\ Respond(r, [status |-> 200, body |-> error.message])

\* catch (error) { res.status(500).send(error.message) }
BulkCatch(r, error) ==
  /\ bdPc' = [bdPc EXCEPT ![r] = "done"]
  /\ Respond(r, [status |-> 500, body |-> error.message])

Call(r, op, arg) ==
  bdCalls' = [bdCalls EXCEPT ![r] = Append(@, [op |-> op, arg |-> arg])]

BulkRequest_NoReturn(r) ==
  /\ listening
  /\ bdPc[r] = "idle"
  /\ IF ~ Includes(connectionNames, emptyOrgName)
     THEN Respond(r, [status |-> 400,
                      body |-> "empty-org connection not found"])
     ELSE UNCHANGED bdSent
  /\ bdPc' = [bdPc EXCEPT ![r] = "resolving"]
  /\ Call(r, "getAuthorization", emptyOrgName)
  /\ UNCHANGED <<connectionNames, listening, ixVars, bdOrg, bdFound, monVars,
                 orgVars>>

\* GET /bulk-demo: 400 when no entry is 'empty-org', else getAuthorization
BulkRequest(r) ==
  /\ listening
  /\ bdPc[r] = "idle"
  /\ IF ~ Includes(connectionNames, emptyOrgName)
     THEN /\ bdPc' = [bdPc EXCEPT ![r] = "done"]
          /\ Respond(r, [status |-> 400,
                         body |-> "empty-org connection not found"])
          /\ UNCHANGED bdCalls
     ELSE /\ bdPc' = [bdPc EXCEPT ![r] = "resolving"]
          /\ Call(r, "getAuthorization", emptyOrgName)
          /\ UNCHANGED bdSent
  /\ UNCHANGED <<connectionNames, listening, ixVars, bdOrg, bdFound, monVars, orgVars>>

\* getAuthorization returns org: log it, then issue the existence query
BulkAuthReturn(r, org) ==
  /\ bdPc[r] = "resolving"
  /\ IF org.user = Undefined
     THEN /\ BulkCatch(r, TypeError("username"))
          /\ UNCHANGED <<bdOrg, bdCalls>>
     ELSE /\ bdPc' = [bdPc EXCEPT ![r] = "querying"]
          /\ bdOrg' = [bdOrg EXCEPT ![r] = org]
          /\ Call(r, "query", org.id)
          /\ UNCHANGED bdSent
  /\ UNCHANGED <<connectionNames, listening, ixVars, bdFound, monVars, orgVars>>

\* getAuthorization raises
BulkAuthRaise(r, error) ==
  /\ bdPc[r] = "resolving"
  /\ BulkCatch(r, error)
  /\ Call(r, "raised", error.message)
  /\ UNCHANGED <<connectionNames, listening, ixVars, bdOrg, bdFound, monVars,
                 orgVars>>

NoneFound_Always(length) == length >= 0

\* queryResult.records.length === 0
NoneFound(length) == length = 0

\* the existence query returns the org's 'Bulk Account%' records: with none,
\* build the table and call ingest; else answer EXISTING_RECORDS
BulkQueryReturn(r) ==
  /\ bdPc[r] = "querying"
  /\ LET n == orgBulkAccounts IN
       /\ bdFound' = [bdFound EXCEPT ![r] = [length |-> n]]
       /\ IF NoneFound(n)
          THEN /\ bdPc' = [bdPc EXCEPT ![r] = "ingesting"]
               /\ Call(r, "ingest", bdOrg[r].id)
               /\ UNCHANGED bdSent
          ELSE /\ bdPc' = [bdPc EXCEPT ![r] = "done"]
               /\ Respond(r, [status |-> 200,
                              json |-> [found |-> n,
                                        status |-> "EXISTING_RECORDS"]])
               /\ UNCHANGED bdCalls
  /\ UNCHANGED <<connectionNames, listening, ixVars, bdOrg, monVars, orgVars>>

\* the existence query raises
BulkQueryRaise(r, error) ==
  /\ bdPc[r] = "querying"
  /\ BulkCatch(r, error)
  /\ Call(r, "raised", error.message)
  /\ UNCHANGED <<connectionNames, listening, ixVars, bdOrg, bdFound, monVars,
                 orgVars>>

\* a variant of BulkIngestReturn that awaits the monitor before it answers
BulkIngestReturn_Awaited(r, ingestResults) ==
  /\ bdPc[r] = "ingesting"
  /\ ingestResults # <<>>
  /\ MonitorStart(r, ingestResults[1])
  /\ bdPc' = [bdPc EXCEPT ![r] = "awaiting-monitor"]
  /\ jobInfo' =
       [jobInfo EXCEPT
          ![ingestResults[1].id] =
            [state |-> "Queued",
             numberRecordsProcessed |-> 0,
             numberRecordsFailed |-> 0]]
  /\ UNCHANGED <<connectionNames, listening, ixVars, bdOrg, bdFound, bdCalls, bdSent,
                 orgBulkAccounts>>

\* ingest returns its handles (the org now holds their jobs): the monitor is
\* started on the first and runs to its first await; then the response
BulkIngestReturn(r, ingestResults) ==
  /\ bdPc[r] = "ingesting"
  /\ LET result == IF ingestResults = <<>> THEN NoHandle
                   ELSE ingestResults[1]
     IN /\ MonitorStart(r, result)
        /\ IF result = NoHandle
           THEN /\ BulkCatch(r, TypeError("id"))
                /\ UNCHANGED jobInfo
           ELSE /\ bdPc' = [bdPc EXCEPT ![r] = "done"]
                /\ Respond(r, [status |-> 200,
                               json |-> [message |-> "Bulk insert job started",
                                         jobId |-> result.id]])
                /\ jobInfo' =
                     [jobInfo EXCEPT
                        ![result.id] =
                          [state |-> "Queued",
                           numberRecordsProcessed |-> 0,
                           numberRecordsFailed |-> 0]]
  /\ UNCHANGED <<connectionNames, listening, ixVars, bdOrg, bdFound, bdCalls,
                 orgBulkAccounts>>

\* ingest raises
BulkIngestRaise(r, error) ==
  /\ bdPc[r] = "ingesting"
  /\ BulkCatch(r, error)
  /\ Call(r, "raised", error.message)
  /\ UNCHANGED <<connectionNames, listening, ixVars, bdOrg, bdFound, monVars,
                 orgVars>>

(* ------------------------------ the process ---------------------------- *)

Sigterm_ExitProcess ==
  /\ listening' = FALSE
  /\ monPc' = [r \in Reqs |-> IF monPc[r] = "idle" THEN "idle" ELSE "done"]
  /\ UNCHANGED <<connectionNames, ixVars, bdVars, monResult, monJobInfo,
                 monPolls, monWaits, monFetches, monLog, orgVars>>

\* process.on('SIGTERM'): server.close() stops the server accepting new
\* requests (each request comes on a connection of its own here)
Sigterm ==
  /\ listening' = FALSE
  /\ UNCHANGED <<connectionNames, ixVars, bdVars, monVars, orgVars>>

(* --------------------------- specifications ---------------------------- *)

\* configurations of the /bulk-demo runs
BulkEnvValues ==
  { Unset,
    Str_empty_org,
    <<" ">> \o Str_empty_org,
    Join(<<Str_org_a, Str_empty_org>>) }

InitIndexVars ==
  /\ listening = TRUE
  /\ ixPc = "idle"
  /\ cbPc = <<>>
  /\ cbOrg = <<>>
  /\ cbValue = <<>>
  /\ cbAuth = <<>>
  /\ cbQuery = <<>>
  /\ cbCalls = <<>>
  /\ ixSent = <<>>

InitBulkVars ==
  /\ bdPc = [r \in Reqs |-> "idle"]
  /\ bdOrg = [r \in Reqs |-> None]
  /\ bdFound = [r \in Reqs |-> None]
  /\ bdCalls = [r \in Reqs |-> <<>>]
  /\ bdSent = [r \in Reqs |-> <<>>]
  /\ monPc = [r \in Reqs |-> "idle"]
  /\ monResult = [r \in Reqs |-> None]
  /\ monJobInfo = [r \in Reqs |-> None]
  /\ monPolls = [r \in Reqs |-> 0]
  /\ monWaits = [r \in Reqs |-> 0]
  /\ monFetches = [r \in Reqs |-> 0]
  /\ monLog = [r \in Reqs |-> <<>>]
  /\ jobInfo = [j \in Reqs |-> None]

InitIndex ==
  /\ \E env \in EnvValues : connectionNames = ParseConnectionNames(env)
  /\ InitIndexVars
  /\ InitBulkVars
  /\ orgBulkAccounts = 0

InitBulk ==
  /\ \E env \in BulkEnvValues : connectionNames = ParseConnectionNames(env)
  /\ InitIndexVars
  /\ InitBulkVars
  /\ orgBulkAccounts \in 0..MaxOrgRecs

NextIndex ==
  \/ IndexRequest
  \/ \E i \in Conns :
       \E org \in Orgs(Trim(connectionNames[i])) : AuthReturn(i, org)
  \/ \E i \in Conns : \E error \in AuthErrors : AuthRaise(i, error)
  \/ \E i \in Conns : \E queryResult \in QueryResults :
       QueryReturn(i, queryResult)
  \/ \E i \in Conns : \E error \in QueryErrors : QueryRaise(i, error)
  \/ IndexSettle

NextBulk ==
  \/ \E r \in MonitoredReqs : BulkRequest(r)
  \/ \E r \in MonitoredReqs : \E org \in Orgs(emptyOrgName) : BulkAuthReturn(r, org)
  \/ \E r \in MonitoredReqs : \E error \in AuthErrors : BulkAuthRaise(r, error)
  \/ \E r \in MonitoredReqs : BulkQueryReturn(r)
  \/ \E r \in MonitoredReqs : \E error \in QueryErrors : BulkQueryRaise(r, error)
  \/ \E r \in MonitoredReqs : \E ingestResults \in IngestResults(r) :
       BulkIngestReturn(r, ingestResults)
  \/ \E r \in MonitoredReqs : \E error \in IngestErrors : BulkIngestRaise(r, error)
  \/ \E r \in MonitoredReqs : PollReturn(r)
  \/ \E r \in MonitoredReqs : \E error \in PollErrors : PollRaise(r, error)
  \/ \E r \in MonitoredReqs : WaitElapse(r)
  \/ \E r \in MonitoredReqs : \E failedResults \in FailedResults :
       FetchReturn(r, failedResults)
  \/ \E r \in MonitoredReqs : \E error \in FetchErrors : FetchRaise(r, error)
  \/ \E j \in MonitoredReqs : \E info \in Snapshots : JobProgress(j, info)
  \/ \E j \in MonitoredReqs : JobInsert(j)

\* the handlers of all the /bulk-demo requests, in any interleaving, against
\* an org that starts with no 'Bulk Account' record; the monitors they start
\* are not followed
InitRequests ==
  /\ \E env \in BulkEnvValues : connectionNames = ParseConnectionNames(env)
  /\ InitIndexVars
  /\ InitBulkVars
  /\ orgBulkAccounts = 0

NextRequests ==
  \/ \E r \in Reqs : BulkRequest(r)
  \/ \E r \in Reqs : \E org \in Orgs(emptyOrgName) : BulkAuthReturn(r, org)
  \/ \E r \in Reqs : \E error \in AuthErrors : BulkAuthRaise(r, error)
  \/ \E r \in Reqs : BulkQueryReturn(r)
  \/ \E r \in Reqs : \E error \in QueryErrors : BulkQueryRaise(r, error)
  \/ \E r \in Reqs : \E ingestResults \in IngestResults(r) :
       BulkIngestReturn(r, ingestResults)
  \/ \E r \in Reqs : \E error \in IngestErrors : BulkIngestRaise(r, error)
  \/ \E j \in Reqs : JobInsert(j)

SpecIndex == InitIndex /\ [][NextIndex]_vars

SpecRequests == InitRequests /\ [][NextRequests]_vars

\* one /bulk-demo request, its monitor and its job, in a process that may
\* receive SIGTERM at any moment
NextShutdown ==
  \/ NextBulk
  \/ Sigterm

SpecShutdown == InitBulk /\ [][NextShutdown]_vars

\* the two handlers side by side: index requests and one /bulk-demo request,
\* whose monitor is not followed
NextHandlers ==
  \/ NextIndex
  \/ \E r \in MonitoredReqs : BulkRequest(r)
  \/ \E r \in MonitoredReqs : \E org \in Orgs(emptyOrgName) : BulkAuthReturn(r, org)
  \/ \E r \in MonitoredReqs : \E error \in AuthErrors : BulkAuthRaise(r, error)
  \/ \E r \in MonitoredReqs : BulkQueryReturn(r)
  \/ \E r \in MonitoredReqs : \E error \in QueryErrors : BulkQueryRaise(r, error)
  \/ \E r \in MonitoredReqs : \E ingestResults \in IngestResults(r) :
       BulkIngestReturn(r, ingestResults)
  \/ \E r \in MonitoredReqs : \E error \in IngestErrors : BulkIngestRaise(r, error)

SpecHandlers == InitBulk /\ [][NextHandlers]_vars

\* the event loop runs every callback that is due: an SDK call that was
\* issued returns or raises, and a timer that was set fires
MonitorFairness ==
  \A r \in MonitoredReqs :
    /\ WF_vars(PollReturn(r) \/ \E error \in PollErrors : PollRaise(r, error))
    /\ WF_vars(WaitElapse(r))
    /\ WF_vars(\/ \E failedResults \in FailedResults :
                    FetchReturn(r, failedResults)
               \/ \E error \in FetchErrors : FetchRaise(r, error))

SpecBulkFair == InitBulk /\ [][NextBulk]_vars /\ MonitorFairness

SpecBulk == InitBulk /\ [][NextBulk]_vars

(* ------------------------- properties: the fan-out --------------------- *)

\* t is s without its leading and trailing whitespace
IsTrimOf(t, s) ==
  /\ t = <<>> \/ (t[1] \notin Whitespace /\ t[Len(t)] \notin Whitespace)
  /\ \E a \in 0..Len(s) :
       /\ a + Len(t) <= Len(s)
       /\ SubSeq(s, a + 1, a + Len(t)) = t
       /\ \A k \in (1..a) \cup ((a + Len(t) + 1)..Len(s)) :
            s[k] \in Whitespace

\* the outcomes the index handler rendered
Rendered == ixSent[1].accountsByOrg

\* the index handler answered once, with a rendered page
RenderedOnce == Len(ixSent) = 1 /\ ixSent[1].status = 200

\* the message of the error entry i met, in a sequence: <<>> when it met none
ErrorMet(i) ==
  IF "raised" \in DOMAIN cbAuth[i] THEN <<cbAuth[i].raised.message>>
  ELSE IF "returned" \in DOMAIN cbAuth[i]
          /\ cbAuth[i].returned.user = Undefined
  THEN <<"Cannot read properties of undefined (reading 'username')">>
  ELSE IF "raised" \in DOMAIN cbQuery[i] THEN <<cbQuery[i].raised.message>>
  ELSE IF "returned" \in DOMAIN cbQuery[i]
          /\ \E k \in 1..Len(cbQuery[i].returned.records) :
               "fields" \notin DOMAIN cbQuery[i].returned.records[k]
  THEN <<"Cannot read properties of undefined (reading 'Name')">>
  ELSE <<>>

\* the value of field p of a field bag
FieldOf(bag, p) == IF p \in DOMAIN bag THEN bag[p] ELSE Undefined

\* row is the projection of record: Name and Id, and nothing else
IsRowOf(row, record) ==
  /\ DOMAIN row = {"Name", "Id"}
  /\ row.Name = FieldOf(record.fields, "Name")
  /\ row.Id = FieldOf(record.fields, "Id")

\* C1: whatever the order in which the calls of the entries return or raise,
\* the index handler answers with the rendered page of exactly one outcome
\* per configured entry, outcome i carrying the trimmed name of entry i; no
\* callback's promise is rejected and the handler never answers 500.
C1_FanOutKeepsInputOrder ==
  /\ \A i \in DOMAIN cbPc : cbPc[i] # "rejected"
  /\ ixPc = "awaiting" => ixSent = <<>>
  /\ ixPc = "done" =>
       /\ RenderedOnce
       /\ Len(Rendered) = Len(connectionNames)
       /\ \A i \in Conns :
            IsTrimOf(Rendered[i].connectionName, connectionNames[i])

\* two entries of different names, written with whitespace, one of which
\* failed, have been rendered
C1_Witness ==
  /\ ixPc = "done" /\ RenderedOnce
  /\ Len(connectionNames) >= 2
  /\ Rendered[1].connectionName # Rendered[2].connectionName
  /\ \E i \in Conns : Rendered[i].connectionName # connectionNames[i]
  /\ \E i \in Conns : ErrorMet(i) # <<>>
  /\ \E i \in Conns : ErrorMet(i) = <<>>

\* C2: an entry that failed at any step (getAuthorization raised, the org or
\* a record was malformed, the query raised) is rendered with no accounts
\* and the message of its error; every other entry is rendered with one row
\* per record of its own query and no error field, whatever the others met.
C2_FailureIsIsolated ==
  ixPc = "done" =>
    /\ RenderedOnce
    /\ \A i \in Conns :
         IF ErrorMet(i) # <<>>
         THEN /\ Rendered[i].accounts = <<>>
              /\ "error" \in DOMAIN Rendered[i]
              /\ Rendered[i].error = ErrorMet(i)[1]
              /\ Rendered[i].error \notin {"", Undefined}
         ELSE /\ "error" \notin DOMAIN Rendered[i]
              /\ "returned" \in DOMAIN cbQuery[i]
              /\ Len(Rendered[i].accounts)
                   = Len(cbQuery[i].returned.records)
              /\ \A k \in 1..Len(Rendered[i].accounts) :
                   Rendered[i].accounts[k].Id
                     = cbQuery[i].returned.records[k].fields.Id

\* an entry whose getAuthorization raised is rendered beside an entry with
\* accounts
C2_Witness ==
  /\ ixPc = "done" /\ RenderedOnce
  /\ \E k \in Conns : \E j \in Conns :
       /\ "raised" \in DOMAIN cbAuth[k]
       /\ Rendered[k].accounts = <<>>
       /\ ErrorMet(j) = <<>>
       /\ Len(Rendered[j].accounts) > 0

\* C3: the callback of a query that returned well-formed records is fulfilled
\* with one row per record, in the order returned, each row holding exactly
\* Name and Id with the values of the record's field bag.
C3_RowsAreNameAndId ==
  \A i \in DOMAIN cbQuery :
    ("returned" \in DOMAIN cbQuery[i] /\ ErrorMet(i) = <<>>) =>
      /\ cbPc[i] = "fulfilled"
      /\ Len(cbValue[i].accounts) = Len(cbQuery[i].returned.records)
      /\ \A k \in 1..Len(cbValue[i].accounts) :
           IsRowOf(cbValue[i].accounts[k], cbQuery[i].returned.records[k])
      /\ (ixPc = "done" /\ RenderedOnce) =>
           Rendered[i].accounts = cbValue[i].accounts

\* two different records with a field beyond Name and Id were projected
C3_Witness ==
  \E i \in DOMAIN cbQuery :
    /\ "returned" \in DOMAIN cbQuery[i] /\ ErrorMet(i) = <<>>
    /\ cbPc[i] = "fulfilled"
    /\ Len(cbValue[i].accounts) = 2
    /\ cbValue[i].accounts[1] # cbValue[i].accounts[2]
    /\ \A k \in 1..2 :
         "Phone" \in DOMAIN cbQuery[i].returned.records[k].fields

(* ------------------------ properties: the monitor ---------------------- *)

\* the entries of kind k the monitor of request r wrote
Logged(r, k) == SelectSeq(monLog[r], LAMBDA e : e.kind = k)

\* the last entry the monitor of request r wrote is of kind k
LastLogged(r, k) ==
  monLog[r] # <<>> /\ monLog[r][Len(monLog[r])].kind = k

\* the monitor of request r has seen a status, and one of these states
Saw(r, states) ==
  "state" \in DOMAIN monJobInfo[r] /\ monJobInfo[r].state \in states

\* every status the monitor of request r logged before its last was not an
\* end state
OnlyLastMayBeTerminal(r) ==
  \A k \in 1..(Len(Logged(r, "status")) - 1) :
    Logged(r, "status")[k].state \notin {"JobComplete", "Failed", "Aborted"}

\* every getInfo the monitor of request r issued has returned and was logged
NoPollOutstanding(r) == monPolls[r] = Len(Logged(r, "status"))

\* C4: once the monitor has seen its first end state and it is JobComplete
\* with no failed record, the monitor has ended in that same step: it wrote
\* exactly one success entry (its last, with the processed count), issued no
\* poll beyond those answered, and never called getFailedResults.
C4_CompleteEndsWithOneSuccess ==
  \A r \in Reqs :
    (Saw(r, {"JobComplete"}) /\ monJobInfo[r].numberRecordsFailed = 0) =>
      /\ monPc[r] = "done"
      /\ OnlyLastMayBeTerminal(r)
      /\ Len(Logged(r, "success")) = 1
      /\ LastLogged(r, "success")
      /\ monLog[r][Len(monLog[r])].processed
           = monJobInfo[r].numberRecordsProcessed
      /\ NoPollOutstanding(r)
      /\ monFetches[r] = 0
      /\ Logged(r, "failed-records") = <<>>

\* a monitor ended on JobComplete without failures at its second poll
C4_Witness ==
  \E r \in Reqs :
    /\ Saw(r, {"JobComplete"}) /\ monJobInfo[r].numberRecordsFailed = 0
    /\ monPc[r] = "done"
    /\ monPolls[r] = 2
    /\ Len(Logged(r, "success")) = 1

\* C5: getFailedResults is called at most once, and exactly when the status
\* seen is JobComplete with failed records (on no Queued or InProgress status
\* with failures, on no Failed or Aborted one); the monitor then logs the
\* failed records once and ends without a further poll.
C5_FetchOnlyOnPartialFailure ==
  \A r \in Reqs :
    /\ monFetches[r] \in {0, 1}
    /\ monFetches[r] = 1 <=>
         (Saw(r, {"JobComplete"}) /\ monJobInfo[r].numberRecordsFailed > 0)
    /\ monPc[r] = "fetching" => monFetches[r] = 1
    /\ Len(Logged(r, "failed-records")) <= monFetches[r]
    /\ monFetches[r] = 1 =>
         /\ monPc[r] \in {"fetching", "done"}
         /\ NoPollOutstanding(r)
         /\ Logged(r, "success") = <<>>
         /\ monPc[r] = "done" =>
              \/ LastLogged(r, "failed-records")
                   /\ Len(Logged(r, "failed-records")) = 1
              \/ LastLogged(r, "monitor-error")

\* a monitor logged the failed records of a job it saw Queued or InProgress
\* before
C5_Witness ==
  \E r \in Reqs :
    /\ monPc[r] = "done"
    /\ monWaits[r] >= 1
    /\ monFetches[r] = 1
    /\ LastLogged(r, "failed-records")

\* C6: the monitor sets its timer once per status that is not an end state
\* and polls once more than it has waited: k such statuses then an end state
\* are k + 1 polls and k waits, one wait between two consecutive polls and
\* none after the last.
C6_OneWaitBetweenPolls ==
  \A r \in Reqs :
    monPc[r] # "idle" /\ monResult[r] # NoHandle =>
      /\ OnlyLastMayBeTerminal(r)
      /\ monWaits[r]
           = Len(SelectSeq(Logged(r, "status"),
                           LAMBDA e : e.state \in {"Queued", "InProgress"}))
      /\ monPolls[r] = monWaits[r] + (IF monPc[r] = "waiting" THEN 0 ELSE 1)
      /\ Saw(r, {"JobComplete", "Failed", "Aborted"}) =>
           /\ monPolls[r] = monWaits[r] + 1
           /\ Len(Logged(r, "status")) = monWaits[r] + 1

\* two statuses that are not end states, then an end state: three polls
C6_Witness ==
  \E r \in Reqs :
    /\ Saw(r, {"JobComplete", "Failed", "Aborted"})
    /\ Len(Logged(r, "status")) = 3
    /\ monPolls[r] = 3
    /\ monWaits[r] = 2

\* C7: once the monitor has seen Failed or Aborted, whatever the counts, it
\* has ended in that same step: its last entry is the error entry naming the
\* state; it called no getFailedResults, wrote no success entry and issued
\* no poll beyond those answered.
C7_FailedOrAbortedEndsWithError ==
  \A r \in Reqs :
    Saw(r, {"Failed", "Aborted"}) =>
      /\ monPc[r] = "done"
      /\ OnlyLastMayBeTerminal(r)
      /\ LastLogged(r, "ended")
      /\ Len(Logged(r, "ended")) = 1
      /\ monLog[r][Len(monLog[r])].level = "error"
      /\ monLog[r][Len(monLog[r])].state = monJobInfo[r].state
      /\ monFetches[r] = 0
      /\ Logged(r, "failed-records") = <<>>
      /\ Logged(r, "success") = <<>>
      /\ NoPollOutstanding(r)

\* a monitor ended on Aborted with processed and failed records
C7_Witness ==
  \E r \in Reqs :
    /\ Saw(r, {"Aborted"})
    /\ monJobInfo[r].numberRecordsFailed > 0
    /\ monJobInfo[r].numberRecordsProcessed > 0
    /\ monPc[r] = "done"

\* the monitor of request r logged the error of a call
Caught(r) == Logged(r, "monitor-error") # <<>>

\* C8: when getInfo or getFailedResults raises, the monitor logs the error
\* and ends: the error entry is its last and only one, the failing call is
\* the last call it issued, nothing of the monitor changes afterwards, and
\* its promise is never rejected.
C8_RaiseEndsMonitor ==
  /\ [](\A r \in Reqs :
          /\ monPc[r] # "rejected"
          /\ Caught(r) =>
               /\ monPc[r] = "done"
               /\ Len(Logged(r, "monitor-error")) = 1
               /\ LastLogged(r, "monitor-error")
               /\ monLog[r][Len(monLog[r])].level = "error"
               /\ IF monFetches[r] = 1
                  THEN NoPollOutstanding(r)
                         /\ Logged(r, "failed-records") = <<>>
                  ELSE monPolls[r] = Len(Logged(r, "status")) + 1)
  /\ [][\A r \in Reqs :
          Caught(r) =>
            /\ monPc'[r] = monPc[r]
            /\ monPolls'[r] = monPolls[r]
            /\ monFetches'[r] = monFetches[r]
            /\ monWaits'[r] = monWaits[r]
            /\ monLog'[r] = monLog[r]]_vars

\* a monitor ended on the error its second getInfo raised
C8_Witness ==
  \E r \in Reqs :
    /\ monPc[r] = "done"
    /\ monPolls[r] = 2
    /\ LastLogged(r, "monitor-error")
    /\ monLog[r][Len(monLog[r])].message = "ECONNRESET"

\* C9: the monitor ends only after it has seen an end state or caught an
\* error; while the statuses it sees are not end states it waits, and each
\* wait can be followed by the next poll (up to the MaxPolls polls followed
\* here) and each poll by its answer.
C9_EndsOnlyOnEndStateOrError ==
  \A r \in Reqs :
    /\ monPc[r] = "done" =>
         Saw(r, {"JobComplete", "Failed", "Aborted"}) \/ Caught(r)
    /\ Saw(r, {"Queued", "InProgress"}) /\ ~ Caught(r) =>
         monPc[r] \in {"waiting", "polling"}
    /\ monPc[r] = "waiting" /\ monPolls[r] < MaxPolls =>
         ENABLED WaitElapse(r)
    /\ monPc[r] = "polling" => ENABLED PollReturn(r)

\* a monitor polls for the third time after two statuses that were not end
\* states
C9_Witness ==
  \E r \in Reqs :
    /\ monPc[r] = "polling"
    /\ monPolls[r] = 3
    /\ monWaits[r] = 2
    /\ Saw(r, {"Queued", "InProgress"})

(* ------------------------ properties: /bulk-demo ----------------------- *)

\* C10: whenever a monitor exists for the job of a request, that request has
\* been answered 'Bulk insert job started' with the job's id: the answer is
\* sent in the step that starts the monitor, while the first getInfo is
\* outstanding, and is the same in every later state of the monitor.
C10_AnswerDoesNotWaitForMonitor ==
  \A r \in Reqs :
    /\ monPc[r] # "idle" /\ monResult[r] # NoHandle =>
         /\ bdPc[r] = "done"
         /\ bdSent[r]
              = <<[status |-> 200,
                   json |-> [message |-> "Bulk insert job started",
                             jobId |-> monResult[r].id]]>>
    /\ monPc[r] # "idle" => bdPc[r] = "done" /\ Len(bdSent[r]) = 1

\* the answer is sent and the first getInfo has not returned
C10_Witness ==
  \E r \in Reqs :
    /\ monPc[r] = "polling"
    /\ monPolls[r] = 1
    /\ monLog[r] = <<>>
    /\ monResult[r] # NoHandle
    /\ Len(bdSent[r]) = 1
    /\ bdSent[r][1].status = 200

(* ------------------- claims on the /bulk-demo handler ------------------ *)

\* the handler of request r issued the SDK call op
Issued(r, op) == \E k \in 1..Len(bdCalls[r]) : bdCalls[r][k].op = op

\* the answer for n records found
ExistingRecords(n) ==
  [status |-> 200, json |-> [found |-> n, status |-> "EXISTING_RECORDS"]]

\* C11: within one /bulk-demo request the ingest is submitted exactly when
\* the existence query of that same request returned zero records; when it
\* returned one or more, the request submits nothing, starts no monitor and
\* answers EXISTING_RECORDS with the number found.
C11_IngestIffNoneFound ==
  \A r \in MonitoredReqs :
    /\ Issued(r, "ingest") <=> (bdFound[r] # None /\ bdFound[r].length = 0)
    /\ (bdFound[r] # None /\ bdFound[r].length > 0) =>
         /\ ~Issued(r, "ingest")
         /\ monPc[r] = "idle"
         /\ jobInfo[r] = None
         /\ bdPc[r] = "done"
         /\ bdSent[r] = <<ExistingRecords(bdFound[r].length)>>

C11_Witness ==
  \E r \in MonitoredReqs :
    /\ bdFound[r] # None
    /\ bdFound[r].length > 0
    /\ bdSent[r] = <<ExistingRecords(bdFound[r].length)>>

\* the last SDK call of request r raised
Raised(r) ==
  /\ Len(bdCalls[r]) >= 2
  /\ bdCalls[r][Len(bdCalls[r])].op = "raised"

\* the SDK call of request r that raised
RaisedBy(r) == bdCalls[r][Len(bdCalls[r]) - 1].op

\* C14: when the ingest raises in /bulk-demo (likewise the session
\* resolution or the existence query), the request answers 500 with the
\* error's message, no monitor is started and no 'Bulk insert job started'
\* answer is given.
C14_RaiseAnswers500WithoutMonitor ==
  \A r \in MonitoredReqs :
    Raised(r) =>
      /\ RaisedBy(r) \in {"getAuthorization", "query", "ingest"}
      /\ bdPc[r] = "done"
      /\ bdSent[r] =
           <<[status |-> 500, body |-> bdCalls[r][Len(bdCalls[r])].arg]>>
      /\ monPc[r] = "idle"
      /\ monResult[r] = None
      /\ monPolls[r] = 0
      /\ jobInfo[r] = None

C14_Witness ==
  \E r \in MonitoredReqs :
    /\ Raised(r)
    /\ RaisedBy(r) = "ingest"
    /\ bdSent[r] = <<[status |-> 500, body |-> "malformed batch"]>>

\* C12: repeated triggers do not submit duplicate jobs: in any sequence or
\* interleaving of /bulk-demo requests against an org that starts with no
\* 'Bulk Account' record, at most one ingest job is submitted and at most
\* one monitor is started.
C12_AtMostOneJobSubmitted ==
  /\ Cardinality({r \in Reqs : Issued(r, "ingest")}) <= 1
  /\ Cardinality({r \in Reqs : monPc[r] # "idle"}) <= 1

(* ---------------------- claims on the index fan-out -------------------- *)

\* C13: the per-connection operations of one index request are launched
\* together: the session resolution of every entry is issued before the
\* handler waits for any of them, and an entry whose resolution or query
\* has not completed keeps no other entry from having its own resolution
\* and query issued and completed.
C13_LaunchedTogether ==
  ixPc = "awaiting" =>
    \A i \in Conns :
      /\ Len(cbCalls[i]) >= 1
      /\ cbCalls[i][1].op = "getAuthorization"
      /\ cbPc[i] = "resolving" =>
           ENABLED (\E org \in Orgs(Trim(connectionNames[i])) :
                      AuthReturn(i, org))
      /\ cbPc[i] = "querying" =>
           /\ Len(cbCalls[i]) = 2
           /\ ENABLED (\E queryResult \in QueryResults :
                         QueryReturn(i, queryResult))

C13_Witness ==
  /\ ixPc = "awaiting"
  /\ \E i, j \in Conns :
       /\ i < j
       /\ cbPc[i] = "resolving"
       /\ cbPc[j] = "fulfilled"
       /\ Len(cbCalls[j]) = 2

\* the answer getAuthorization gave for entry i
AuthReturned(i) == cbAuth[i] # None /\ "returned" \in DOMAIN cbAuth[i]
AuthRaised(i) == cbAuth[i] # None /\ "raised" \in DOMAIN cbAuth[i]

\* C15: within one entry of the fan-out the query is issued only after that
\* entry's session resolution succeeded, and against the session it resolved;
\* when the resolution raises no query is issued for the entry; each request
\* issues at most one resolution and one query per entry.
C15_QueryFollowsOwnResolve ==
  ixPc # "idle" =>
    \A i \in Conns :
      /\ Len(cbCalls[i]) \in {1, 2}
      /\ cbCalls[i][1] =
           [op |-> "getAuthorization", arg |-> Trim(connectionNames[i])]
      /\ Len(cbCalls[i]) = 2 =>
           /\ AuthReturned(i)
           /\ cbOrg[i] = cbAuth[i].returned
           /\ cbOrg[i].id = Trim(connectionNames[i])
           /\ cbCalls[i][2] = [op |-> "query", arg |-> cbOrg[i].id]
      /\ AuthRaised(i) => Len(cbCalls[i]) = 1 /\ cbQuery[i] = None
      /\ cbAuth[i] = None => Len(cbCalls[i]) = 1 /\ cbQuery[i] = None

C15_Witness ==
  /\ ixPc # "idle"
  /\ \E i, j \in Conns :
    /\ AuthRaised(i)
    /\ cbPc[i] = "fulfilled"
    /\ Len(cbCalls[i]) = 1
    /\ AuthReturned(j)
    /\ cbCalls[j][Len(cbCalls[j])] = [op |-> "query", arg |-> cbOrg[j].id]
    /\ cbOrg[i] # cbOrg[j]

\* C18: whenever a request starts a monitor, that request answers 'Bulk
\* insert job started' with the id of the very handle being monitored (the
\* first handle of the ingest's result); no monitor is started for a request
\* that answered 400, 500 or EXISTING_RECORDS, also when the ingest returned
\* an empty sequence of handles.
C18_MonitorOnlyWithJobStarted ==
  \A r \in MonitoredReqs :
    /\ monPc[r] # "idle" =>
         /\ monResult[r] # NoHandle
         /\ bdSent[r] =
              <<[status |-> 200,
                 json |-> [message |-> "Bulk insert job started",
                           jobId |-> monResult[r].id]]>>
    /\ (\E k \in 1..Len(bdSent[r]) :
          \/ bdSent[r][k].status \in {400, 500}
          \/ bdSent[r][k] \in {ExistingRecords(n) : n \in 1..MaxOrgRecs})
         => monPc[r] = "idle"

\* C19: when no configured entry equals 'empty-org' as written, /bulk-demo
\* answers 400 and calls the SDK not at all; an entry that only trims to
\* 'empty-org', which the index fan-out would resolve as 'empty-org', does
\* not count.
C19_NoEmptyOrgAnswers400 ==
  (\A i \in 1..Len(connectionNames) : connectionNames[i] # Str_empty_org) =>
    \A r \in MonitoredReqs :
      /\ bdCalls[r] = <<>>
      /\ bdPc[r] \in {"idle", "done"}
      /\ bdPc[r] = "done" =>
           bdSent[r] =
             <<[status |-> 400, body |-> "empty-org connection not found"]>>
      /\ bdOrg[r] = None
      /\ monPc[r] = "idle"
      /\ jobInfo[r] = None

C19_Witness ==
  /\ \E i \in 1..Len(connectionNames) :
       /\ connectionNames[i] # Str_empty_org
       /\ Trim(connectionNames[i]) = Str_empty_org
  /\ \E r \in MonitoredReqs :
       /\ bdCalls[r] = <<>>
       /\ bdSent[r] =
            <<[status |-> 400, body |-> "empty-org connection not found"]>>

(* ------------------------ claims on the shutdown ----------------------- *)

\* the monitor of request r, when in flight, can take its next step
MonitorCanContinue(r) ==
  /\ monPc[r] = "polling" =>
       /\ ENABLED PollReturn(r)
       /\ ENABLED (\E error \in PollErrors : PollRaise(r, error))
  /\ (monPc[r] = "waiting" /\ monPolls[r] < MaxPolls) => ENABLED WaitElapse(r)
  /\ monPc[r] = "fetching" =>
       ENABLED (\E failedResults \in FailedResults :
                  FetchReturn(r, failedResults))

\* the handler of request r, when in flight, can take its next step
HandlerCanContinue(r) ==
  /\ bdPc[r] = "resolving" =>
       ENABLED (\E org \in Orgs(emptyOrgName) : BulkAuthReturn(r, org))
  /\ bdPc[r] = "querying" => ENABLED BulkQueryReturn(r)
  /\ bdPc[r] = "ingesting" =>
       ENABLED (\E ingestResults \in IngestResults(r) :
                  BulkIngestReturn(r, ingestResults))

JobIsTerminal(r) ==
  /\ monResult[r] \notin {None, NoHandle}
  /\ jobInfo[monResult[r].id] # None
  /\ jobInfo[monResult[r].id].state \in TerminalStates

\* the monitor of request r is in flight, with a poll left to follow
MonitorInFlight(r) ==
  \/ monPc[r] \in {"polling", "fetching"}
  \/ monPc[r] = "waiting" /\ monPolls[r] < MaxPolls

\* C17: when every issued call returns or raises and every timer fires, a
\* monitor whose job has become terminal (and stays terminal) eventually
\* terminates.
C17_TerminalJobEndsMonitor ==
  \A r \in MonitoredReqs :
    (MonitorInFlight(r) /\ JobIsTerminal(r)) ~> (monPc[r] = "done")

C17_Witness ==
  \E r \in MonitoredReqs :
    /\ JobIsTerminal(r)
    /\ monPc[r] = "waiting"
    /\ monPolls[r] < MaxPolls
    /\ monJobInfo[r].state \in NonTerminalStates

(* ------------------------ claims on both handlers ---------------------- *)

\* every callback of the fan-out has settled
AllSettled == \A i \in Conns : cbPc[i] \in {"fulfilled", "rejected"}

\* C20: every request to '/' and to '/bulk-demo' whose SDK calls all return
\* or raise ends with exactly one response, on every path: none while the
\* handler is in flight, where its next step is always possible, and one
\* once it has ended, also when the error is raised after the monitor was
\* started.
C20_ExactlyOneResponse ==
  /\ Len(ixSent) = (IF ixPc = "done" THEN 1 ELSE 0)
  /\ (ixPc = "awaiting" /\ AllSettled) => ENABLED IndexSettle
  /\ \A r \in MonitoredReqs :
       /\ Len(bdSent[r]) = (IF bdPc[r] = "done" THEN 1 ELSE 0)
       /\ HandlerCanContinue(r)

C20_Witness ==
  /\ ixPc = "done"
  /\ Len(ixSent) = 1
  /\ \E r \in MonitoredReqs :
       /\ monPc[r] # "idle"
       /\ monResult[r] = NoHandle
       /\ bdPc[r] = "done"
       /\ Len(bdSent[r]) = 1
       /\ bdSent[r][1].status = 500

====
